---- MODULE Spec2Model ----
(***************************************************************************)
(* Model of houdini-node: the transcoding between the host's columnar      *)
(* attribute storage (RawGeometry / RawAttribute) and typed row            *)
(* collections (Geometry<Pt, Vt, Pr, Dt>).                                 *)
(*                                                                         *)
(* Floats are modelled by integers, strings by strings, usize by naturals. *)
(* Result<T> is Ok(v) / Err(e); an error is a tuple <<tag, fields...>>.    *)
(* Option<T> is Some(v) / None, a tuple <<tag, value>>.                    *)
(***************************************************************************)
EXTENDS Integers, Sequences, FiniteSets, TLC

VARIABLES pc,            \* position of the driver: which call has been made
          ty,            \* load_from_attr: the target type T
          attr,          \* load_from_attr: the Option<RawAttribute> argument
          num_elements,  \* load_from_attr: the element count argument
          attr_name,     \* load_from_attr: the attribute name argument
          err_context,   \* load_from_attr: the ErrContext argument
          res,           \* load_from_attr: the Result, collected
          calls,         \* load_from_attr: the base decoders that ran
          gty,           \* the instantiation Geometry<Pt, Vt, Pr, Dt>
          geo,           \* the Geometry handed to into_raw
          out,           \* the Result of into_raw
          raw,           \* the RawGeometry handed to from_raw
          input_index,   \* the input_index handed to from_raw
          back           \* the Result of from_raw

vars == <<pc, ty, attr, num_elements, attr_name, err_context, res, calls,
          gty, geo, out, raw, input_index, back>>

attrVars == <<ty, attr, num_elements, attr_name, err_context, res, calls>>
geoVars == <<gty, geo, out, raw, input_index, back>>

-----------------------------------------------------------------------------
(* Bounds of the model *)

\* longest flat vector of a column drawn as an input
MaxLen == 4
\* deepest nesting Option<Option<..T..>> of a target type
MaxOptDepth == 1
\* largest num_elements / input_index drawn as an input
MaxCount == 2
\* largest total size (rows plus vertex-list elements) of a drawn Geometry
MaxSize == 4

-----------------------------------------------------------------------------
(* Result, Option, errors *)

Ok(v) == [ok |-> TRUE, val |-> v]
Err(e) == [ok |-> FALSE, err |-> e]

None == <<"None">>
Some(v) == <<"Some", v>>

Unset == <<"unset">>

InvalidAttributeLength(expected, actual) == <<"InvalidAttributeLength", expected, actual>>
InvalidAttributeType(expected, actual) == <<"InvalidAttributeType", expected, actual>>
MissingAttr(idx, entity, name) == <<"MissingAttr", idx, entity, name>>
NoDetail == <<"NoDetail">>
MissingOutPrimVertices == <<"MissingOutPrimVertices">>
MissingOutVertexPtnums == <<"MissingOutVertexPtnums">>
InvalidOutVertexPtnum == <<"InvalidOutVertexPtnum">>
InvalidOutPrimVertex(v) == <<"InvalidOutPrimVertex", v>>
AttrNameCollision(name) == <<"AttrNameCollision", name>>

EntityKind == {"point", "vertex", "prim", "detail"}

ErrContext(idx, entity) == [input_index |-> idx, entity |-> entity]

-----------------------------------------------------------------------------
(* RawAttributeData / RawAttribute *)

AttributeType == {"float", "float_array", "int", "int_array", "string",
                  "string_array", "index", "prim_vertex"}

\* A variant of the enum: <<variant, vector>>.
RawAttributeData(k, v) == <<k, v>>

\* the vector a variant holds
vector(data) == data[2]

RawAttribute(n, d) == [tuple_size |-> n, data |-> d]

\* RawAttributeData::kind
kind(data) == data[1]

\* err with the two fields of the error exchanged
err_swapped(data, expected) == Err(InvalidAttributeType(kind(data), expected))

\* RawAttributeData::err
err(data, expected) == Err(InvalidAttributeType(expected, kind(data)))

\* RawAttributeData::float, ::int, ::string, ::index, ::prim_vertex: the
\* vector of the variant `expected`, or the kind error.
variant(data, expected) ==
    IF kind(data) = expected THEN Ok(vector(data)) ELSE err(data, expected)

-----------------------------------------------------------------------------
(* Target types: FromAttributeData / IntoAttributeData implementors *)

ScalarTypes == {"f32", "i32", "String", "usize", "VecUsize"}

BaseTypes == ScalarTypes \cup
             {"bool", "Vec2", "Vec3", "Vec4", "Quat", "Mat2", "Mat3", "Mat4"}

\* A type is a base type under `opt` layers of Option<..>.
Type(base, opt) == [base |-> base, opt |-> opt]

Plain(base) == Type(base, 0)

Types == {Type(b, o) : b \in BaseTypes, o \in 0..MaxOptDepth}

\* The scalar type the DataType of a base type is made of.
ScalarOf(base) ==
    CASE base \in ScalarTypes -> base
      [] base = "bool" -> "i32"
      [] OTHER -> "f32"

\* N when the DataType is the array [scalar; N], 0 when it is the scalar.
ArrayLen(base) ==
    CASE base = "Vec2" -> 2
      [] base = "Vec3" -> 3
      [] base \in {"Vec4", "Quat", "Mat2"} -> 4
      [] base = "Mat3" -> 9
      [] base = "Mat4" -> 16
      [] OTHER -> 0

\* FromAttributeDataSource::LEN / IntoAttributeDataSource::LEN of the DataType
LEN(base) == IF ArrayLen(base) = 0 THEN 1 ELSE ArrayLen(base)

\* The variant of RawAttributeData a scalar type is stored in.
VariantOf(scalar) ==
    CASE scalar = "f32" -> "float"
      [] scalar = "i32" -> "int"
      [] scalar = "String" -> "string"
      [] scalar = "usize" -> "index"
      [] scalar = "VecUsize" -> "prim_vertex"

-----------------------------------------------------------------------------
(* Scalar codec *)

\* into_array_iter yielding overlapping windows (one element further each)
into_array_iter_windows(v, N) ==
    [k \in 1..(Len(v) \div N) |-> SubSeq(v, k, k + N - 1)]

\* into_array_iter: v.next_array() until it yields None
into_array_iter(v, N) ==
    [k \in 1..(Len(v) \div N) |-> SubSeq(v, (k - 1) * N + 1, k * N)]

\* FromAttributeDataSource::from_attr_data for the DataType of `base`
source_from_attr_data(base, data) ==
    LET r == variant(data.data, VariantOf(ScalarOf(base)))
    IN IF ~r.ok THEN r
       ELSE IF ArrayLen(base) = 0 THEN r
       ELSE Ok(into_array_iter(r.val, ArrayLen(base)))

RECURSIVE flatten(_)
\* Iterator::flatten over a sequence of arrays
flatten(chunks) ==
    IF chunks = <<>> THEN <<>> ELSE Head(chunks) \o flatten(Tail(chunks))

\* IntoAttributeDataSource::into_attr_data for the DataType of `base`
source_into_attr_data(base, chunks) ==
    RawAttributeData(VariantOf(ScalarOf(base)),
                     IF ArrayLen(base) = 0 THEN chunks ELSE flatten(chunks))

-----------------------------------------------------------------------------
(* Type adapters (one chunk <-> one domain value) *)

V2(a) == [x |-> a[1], y |-> a[2]]
V3(a) == [x |-> a[1], y |-> a[2], z |-> a[3]]
V4(a) == [x |-> a[1], y |-> a[2], z |-> a[3], w |-> a[4]]

\* the adapters with the quaternion built as from_xyzw(w, x, y, z)
from_chunk_quat_wxyz(base, c) ==
    CASE base \in ScalarTypes -> c
      [] base = "bool" -> c # 0
      [] base = "Vec2" -> V2(c)
      [] base = "Vec3" -> V3(c)
      [] base = "Vec4" -> V4(c)
      [] base = "Quat" -> [x |-> c[4], y |-> c[1], z |-> c[2], w |-> c[3]]
      [] base = "Mat2" -> [x_axis |-> V2(SubSeq(c, 1, 2)), y_axis |-> V2(SubSeq(c, 3, 4))]
      [] base = "Mat3" -> [x_axis |-> V3(SubSeq(c, 1, 3)), y_axis |-> V3(SubSeq(c, 4, 6)),
                           z_axis |-> V3(SubSeq(c, 7, 9))]
      [] base = "Mat4" -> [x_axis |-> V4(SubSeq(c, 1, 4)), y_axis |-> V4(SubSeq(c, 5, 8)),
                           z_axis |-> V4(SubSeq(c, 9, 12)), w_axis |-> V4(SubSeq(c, 13, 16))]

\* FromAttributeData::from_attr_data, per element
from_chunk(base, c) ==
    CASE base \in ScalarTypes -> c
      [] base = "bool" -> c # 0
      [] base = "Vec2" -> V2(c)
      [] base = "Vec3" -> V3(c)
      [] base = "Vec4" -> V4(c)
      [] base = "Quat" -> [x |-> c[1], y |-> c[2], z |-> c[3], w |-> c[4]]
      [] base = "Mat2" -> [x_axis |-> V2(SubSeq(c, 1, 2)), y_axis |-> V2(SubSeq(c, 3, 4))]
      [] base = "Mat3" -> [x_axis |-> V3(SubSeq(c, 1, 3)), y_axis |-> V3(SubSeq(c, 4, 6)),
                           z_axis |-> V3(SubSeq(c, 7, 9))]
      [] base = "Mat4" -> [x_axis |-> V4(SubSeq(c, 1, 4)), y_axis |-> V4(SubSeq(c, 5, 8)),
                           z_axis |-> V4(SubSeq(c, 9, 12)), w_axis |-> V4(SubSeq(c, 13, 16))]

A2(v) == <<v.x, v.y>>
A3(v) == <<v.x, v.y, v.z>>
A4(v) == <<v.x, v.y, v.z, v.w>>

\* IntoAttributeData::into_attr_data, per element
into_chunk(base, v) ==
    CASE base \in ScalarTypes -> v
      [] base = "bool" -> IF v THEN 1 ELSE 0
      [] base = "Vec2" -> A2(v)
      [] base = "Vec3" -> A3(v)
      [] base = "Vec4" -> A4(v)
      [] base = "Quat" -> <<v.x, v.y, v.z, v.w>>
      [] base = "Mat2" -> A2(v.x_axis) \o A2(v.y_axis)
      [] base = "Mat3" -> A3(v.x_axis) \o A3(v.y_axis) \o A3(v.z_axis)
      [] base = "Mat4" -> A4(v.x_axis) \o A4(v.y_axis) \o A4(v.z_axis) \o A4(v.w_axis)

\* FromAttributeData::from_attr_data over the chunk iterator
from_attr_data(base, chunks) ==
    [k \in 1..Len(chunks) |-> from_chunk(base, chunks[k])]

\* IntoAttributeData::into_attr_data over the value iterator
into_attr_data(base, values) ==
    [k \in 1..Len(values) |-> into_chunk(base, values[k])]

-----------------------------------------------------------------------------
(* Decoding and encoding one column *)

\* the predefined implementation with the kind checked before the arity
default_from_attr_data_raw_kind_first(base, a, n, name, ctx) ==
    IF a = None
    THEN Err(MissingAttr(ctx.input_index, ctx.entity, name))
    ELSE LET data_iter == source_from_attr_data(base, a[2])
         IN IF ~data_iter.ok THEN data_iter
            ELSE IF a[2].tuple_size # LEN(base)
            THEN Err(InvalidAttributeLength(LEN(base), a[2].tuple_size))
            ELSE Ok(from_attr_data(base, data_iter.val))

\* FromAttributeData::from_attr_data_raw, the predefined implementation
\* (n is the unused _num_elements)
default_from_attr_data_raw(base, a, n, name, ctx) ==
    IF a = None
    THEN Err(MissingAttr(ctx.input_index, ctx.entity, name))
    ELSE IF a[2].tuple_size # LEN(base)
    THEN Err(InvalidAttributeLength(LEN(base), a[2].tuple_size))
    ELSE LET data_iter == source_from_attr_data(base, a[2])
         IN IF ~data_iter.ok THEN data_iter
            ELSE Ok(from_attr_data(base, data_iter.val))

RECURSIVE from_attr_data_raw(_, _, _, _, _)

\* the Option<T> implementation handing an absent attribute on to T
option_from_attr_data_raw_no_fallback(T, a, n, name, ctx) ==
    LET inner == from_attr_data_raw(Type(T.base, T.opt - 1), a, n, name, ctx)
    IN IF ~inner.ok THEN inner
       ELSE Ok([k \in 1..Len(inner.val) |-> Some(inner.val[k])])

\* <Option<T> as FromAttributeData>::from_attr_data_raw, T = Type(T.base, T.opt - 1)
option_from_attr_data_raw(T, a, n, name, ctx) ==
    IF a # None
    THEN LET inner == from_attr_data_raw(Type(T.base, T.opt - 1), a, n, name, ctx)
         IN IF ~inner.ok THEN inner
            ELSE Ok([k \in 1..Len(inner.val) |-> Some(inner.val[k])])
    ELSE Ok([k \in 1..n |-> None])

\* T::from_attr_data_raw: Option<T> overrides the predefined implementation
from_attr_data_raw(T, a, n, name, ctx) ==
    IF T.opt = 0
    THEN default_from_attr_data_raw(T.base, a, n, name, ctx)
    ELSE option_from_attr_data_raw(T, a, n, name, ctx)

RECURSIVE decoder_calls(_, _)
\* The base types whose predefined from_attr_data_raw body runs during
\* T::from_attr_data_raw(attr, ..), in call order.
decoder_calls(T, a) ==
    IF T.opt = 0 THEN <<T.base>>
    ELSE IF a = None THEN <<>>
    ELSE decoder_calls(Type(T.base, T.opt - 1), a)

\* load_from_attr
load_from_attr(T, a, n, name, ctx) == from_attr_data_raw(T, a, n, name, ctx)

\* generate_to_attr
generate_to_attr(base, data) ==
    RawAttribute(LEN(base), source_into_attr_data(base, into_attr_data(base, data)))

-----------------------------------------------------------------------------
(* Row structures and the derived Row/Column transcoders *)

\* One named field of a row structure: Rust field name, attribute name
\* (#[attr(name = ..)] or the field name), field type.
Field(f, a, T) == [field |-> f, attr |-> a, ty |-> T]

\* A row structure deriving InAttrs / OutAttrs.
Struct(fields) == [unit |-> FALSE, fields |-> fields]

\* The unit row kind `()`, and its only value.
UnitKind == [unit |-> TRUE, fields |-> <<>>]
Unit == <<>>

\* HashMap::new()
EmptyMap == <<>>

\* HashMap::remove / get, as the Option it returns
get(m, k) == IF k \in DOMAIN m THEN Some(m[k]) ELSE None

\* the map left by HashMap::remove
without(m, k) == [a \in (DOMAIN m) \ {k} |-> m[a]]

\* the map left by HashMap::insert
insert(m, k, v) == [a \in (DOMAIN m) \cup {k} |-> IF a = k THEN v ELSE m[a]]

\* HashMap::is_empty
is_empty(m) == DOMAIN m = {}

Min(S) == CHOOSE x \in S : \A y \in S : x <= y
Max(S) == CHOOSE x \in S : \A y \in S : x >= y

\* number of tuples a column holds
tuples(a) == IF a.tuple_size = 0 THEN 0 ELSE Len(vector(a.data)) \div a.tuple_size

\* The element count the derived from_attr hands to load_from_attr: the row
\* count of the collection's sibling columns.
row_count(attrs) ==
    IF is_empty(attrs) THEN 0 ELSE Min({tuples(attrs[a]) : a \in DOMAIN attrs})

\* the zip aligned at the end of the columns: row k takes the k-th of the
\* last n values of every field
izip_tail(S, cols) ==
    LET n == Min({Len(cols[i]) : i \in 1..Len(cols)})
    IN [k \in 1..n |->
          [f \in {S.fields[i].field : i \in 1..Len(S.fields)} |->
              LET c == cols[CHOOSE i \in 1..Len(S.fields) : S.fields[i].field = f]
              IN c[Len(c) - n + k]]]

\* itertools::izip! over the per-field iterators, mapped to Self { .. }
izip(S, cols) ==
    LET n == Min({Len(cols[i]) : i \in 1..Len(cols)})
    IN [k \in 1..n |->
          [f \in {S.fields[i].field : i \in 1..Len(S.fields)} |->
              cols[CHOOSE i \in 1..Len(S.fields) : S.fields[i].field = f][k]]]

\* derived from_attr: the field loads in declaration order (each `?`), then
\* the zip. attrs.remove leaves None for a name an earlier field removed.
derive_from_attr(S, attrs, ctx) ==
    LET n == row_count(attrs)
        arg(i) == IF \E j \in 1..(i - 1) : S.fields[j].attr = S.fields[i].attr
                  THEN None ELSE get(attrs, S.fields[i].attr)
        loads == [i \in 1..Len(S.fields) |->
                    load_from_attr(S.fields[i].ty, arg(i), n, S.fields[i].attr, ctx)]
        failed == {i \in 1..Len(S.fields) : ~loads[i].ok}
    IN IF failed # {} THEN loads[Min(failed)]
       ELSE Ok(izip(S, [i \in 1..Len(S.fields) |-> loads[i].val]))

\* InAttrs::from_attr: `()` yields iter::empty(), a structure its derived impl
from_attr(S, attrs, ctx) ==
    IF S.unit THEN Ok(<<>>) ELSE derive_from_attr(S, attrs, ctx)

\* empty() without the override of `()`: None for every row kind
empty_none(S) == None

\* InAttrs::empty: Some(()) for `()`, None in all other cases
empty(S) == IF S.unit THEN Some(Unit) ELSE None

\* derived into_attr: multiunzip, then HashMap::from of one generate_to_attr
\* per field (a later entry of the same name replaces an earlier one)
derive_into_attr(S, entities) ==
    [a \in {S.fields[i].attr : i \in 1..Len(S.fields)} |->
        LET i == Max({j \in 1..Len(S.fields) : S.fields[j].attr = a})
        IN generate_to_attr(S.fields[i].ty.base,
                            [k \in 1..Len(entities) |-> entities[k][S.fields[i].field]])]

\* OutAttrs::into_attr: `()` yields HashMap::new(), a structure its derived impl
into_attr(S, entities) ==
    IF S.unit THEN EmptyMap ELSE derive_into_attr(S, entities)

-----------------------------------------------------------------------------
(* Geometry assembler *)

Geometry(p, v, r, d) == [points |-> p, vertices |-> v, prims |-> r, detail |-> d]

GeometryType(Pt, Vt, Pr, Dt) == [Pt |-> Pt, Vt |-> Vt, Pr |-> Pr, Dt |-> Dt]

\* the inner loop without the table lookup: every v in bounds is kept
remap_list_no_lookup(primvert, vert2pt) ==
    IF \E i \in 1..Len(primvert) : primvert[i] >= Len(vert2pt)
    THEN Err(InvalidOutPrimVertex(
            primvert[Min({i \in 1..Len(primvert) : primvert[i] >= Len(vert2pt)})]))
    ELSE Ok(primvert)

RECURSIVE remap_list(_, _)
\* the inner loop of into_raw over one primitive's vertex list: every v is
\* replaced by vert2pt[v]; the first v out of bounds ends it with the error
remap_list(primvert, vert2pt) ==
    IF primvert = <<>> THEN Ok(<<>>)
    ELSE LET v == Head(primvert)
         IN IF v >= Len(vert2pt) THEN Err(InvalidOutPrimVertex(v))
            ELSE LET rest == remap_list(Tail(primvert), vert2pt)
                 IN IF ~rest.ok THEN rest
                    ELSE Ok(<<vert2pt[v + 1]>> \o rest.val)

RECURSIVE remap(_, _)

\* the outer loop walking the primitives from the last to the first
remap_backwards(primverts, vert2pt) ==
    IF primverts = <<>> THEN Ok(<<>>)
    ELSE LET rest == remap(Tail(primverts), vert2pt)
         IN IF ~rest.ok THEN rest
            ELSE LET first == remap_list(Head(primverts), vert2pt)
                 IN IF ~first.ok THEN first
                    ELSE Ok(<<first.val>> \o rest.val)

\* the outer loop of into_raw over the primitives, in order
remap(primverts, vert2pt) ==
    IF primverts = <<>> THEN Ok(<<>>)
    ELSE LET first == remap_list(Head(primverts), vert2pt)
         IN IF ~first.ok THEN first
            ELSE LET rest == remap(Tail(primverts), vert2pt)
                 IN IF ~rest.ok THEN rest
                    ELSE Ok(<<first.val>> \o rest.val)

\* the table taken from any "ptnum" column, whatever its variant
vert2pt_of_any_kind(vertices) ==
    IF get(vertices, "ptnum") = None THEN Err(MissingOutVertexPtnums)
    ELSE Ok(vector(vertices["ptnum"].data))

\* the vertex -> point table of into_raw: the "ptnum" column's Index vector
vert2pt_of(vertices) ==
    LET vert2pt == get(vertices, "ptnum")
    IN IF vert2pt = None THEN Err(MissingOutVertexPtnums)
       ELSE IF kind(vert2pt[2].data) # "index" THEN Err(InvalidOutVertexPtnum)
       ELSE Ok(vector(vert2pt[2].data))

\* the rewritten column inserted without looking for a "points" column
insert_points_overwriting(prims, primverts) == Ok(insert(prims, "points", primverts))

\* the end of the conversion: `prims.contains_key("points")`, then the insert
insert_points(prims, primverts) ==
    IF "points" \in DOMAIN prims THEN Err(AttrNameCollision("points"))
    ELSE Ok(insert(prims, "points", primverts))

\* the conversion reading "vertices" with get, so that the column stays
convert_prims_keep_vertices(vertices, prims0) ==
    LET primverts == get(prims0, "vertices")
        vert2pt == vert2pt_of(vertices)
    IN IF primverts = None THEN Err(MissingOutPrimVertices)
       ELSE IF ~vert2pt.ok THEN vert2pt
       ELSE IF kind(primverts[2].data) # "prim_vertex"
       THEN err(primverts[2].data, "prim_vertex")
       ELSE LET mapped == remap(vector(primverts[2].data), vert2pt.val)
            IN IF ~mapped.ok THEN mapped
               ELSE insert_points(prims0,
                                  RawAttribute(primverts[2].tuple_size,
                                               RawAttributeData("prim_vertex", mapped.val)))

\* the vertex-index to point-index conversion of into_raw (the body of
\* `if !prims.is_empty()`)
convert_prims(vertices, prims0) ==
    LET primverts == get(prims0, "vertices")
        prims == without(prims0, "vertices")
        vert2pt == vert2pt_of(vertices)
    IN IF primverts = None THEN Err(MissingOutPrimVertices)
       ELSE IF ~vert2pt.ok THEN vert2pt
       ELSE IF kind(primverts[2].data) # "prim_vertex"
       THEN err(primverts[2].data, "prim_vertex")
       ELSE LET mapped == remap(vector(primverts[2].data), vert2pt.val)
            IN IF ~mapped.ok THEN mapped
               ELSE insert_points(prims,
                                  RawAttribute(primverts[2].tuple_size,
                                               RawAttributeData("prim_vertex", mapped.val)))

\* into_raw converting only when there are primitive rows
into_raw_rows_nonempty(G, g) ==
    LET vertices == into_attr(G.Vt, g.vertices)
        prims == into_attr(G.Pr, g.prims)
        converted == IF g.prims # <<>> THEN convert_prims(vertices, prims) ELSE Ok(prims)
    IN IF ~converted.ok THEN converted
       ELSE Ok(Geometry(into_attr(G.Pt, g.points), vertices, converted.val,
                        into_attr(G.Dt, <<g.detail>>)))

\* <Geometry<Pt, Vt, Pr, Dt> as IntoRawGeometry>::into_raw
into_raw(G, g) ==
    LET vertices == into_attr(G.Vt, g.vertices)
        prims == into_attr(G.Pr, g.prims)
        converted == IF ~is_empty(prims) THEN convert_prims(vertices, prims) ELSE Ok(prims)
    IN IF ~converted.ok THEN converted
       ELSE Ok(Geometry(into_attr(G.Pt, g.points), vertices, converted.val,
                        into_attr(G.Dt, <<g.detail>>)))

\* from_raw looking at the detail rows only after the other three decodes
from_raw_detail_last(G, r, idx) ==
    LET details == from_attr(G.Dt, r.detail, ErrContext(idx, "detail"))
        points == from_attr(G.Pt, r.points, ErrContext(idx, "point"))
        vertices == from_attr(G.Vt, r.vertices, ErrContext(idx, "vertex"))
        prims == from_attr(G.Pr, r.prims, ErrContext(idx, "prim"))
    IN IF ~details.ok THEN details
       ELSE IF ~points.ok THEN points
       ELSE IF ~vertices.ok THEN vertices
       ELSE IF ~prims.ok THEN prims
       ELSE IF Len(details.val) > 0
       THEN Ok(Geometry(points.val, vertices.val, prims.val, Head(details.val)))
       ELSE IF empty(G.Dt) = None THEN Err(NoDetail)
       ELSE Ok(Geometry(points.val, vertices.val, prims.val, empty(G.Dt)[2]))

\* from_raw handing the point context to every collection but the detail
from_raw_point_context(G, r, idx) ==
    LET details == from_attr(G.Dt, r.detail, ErrContext(idx, "detail"))
        detail == IF ~details.ok THEN details
                  ELSE IF Len(details.val) > 0 THEN Ok(Head(details.val))
                  ELSE IF empty(G.Dt) = None THEN Err(NoDetail)
                  ELSE Ok(empty(G.Dt)[2])
        points == from_attr(G.Pt, r.points, ErrContext(idx, "point"))
        vertices == from_attr(G.Vt, r.vertices, ErrContext(idx, "point"))
        prims == from_attr(G.Pr, r.prims, ErrContext(idx, "point"))
    IN IF ~detail.ok THEN detail
       ELSE IF ~points.ok THEN points
       ELSE IF ~vertices.ok THEN vertices
       ELSE IF ~prims.ok THEN prims
       ELSE Ok(Geometry(points.val, vertices.val, prims.val, detail.val))

\* <Geometry<Pt, Vt, Pr, Dt> as FromRawGeometry>::from_raw
from_raw(G, r, idx) ==
    LET details == from_attr(G.Dt, r.detail, ErrContext(idx, "detail"))
        detail == IF ~details.ok THEN details
                  ELSE IF Len(details.val) > 0 THEN Ok(Head(details.val))
                  ELSE IF empty(G.Dt) = None THEN Err(NoDetail)
                  ELSE Ok(empty(G.Dt)[2])
        points == from_attr(G.Pt, r.points, ErrContext(idx, "point"))
        vertices == from_attr(G.Vt, r.vertices, ErrContext(idx, "vertex"))
        prims == from_attr(G.Pr, r.prims, ErrContext(idx, "prim"))
    IN IF ~detail.ok THEN detail
       ELSE IF ~points.ok THEN points
       ELSE IF ~vertices.ok THEN vertices
       ELSE IF ~prims.ok THEN prims
       ELSE Ok(Geometry(points.val, vertices.val, prims.val, detail.val))

-----------------------------------------------------------------------------
(* Inputs of load_from_attr *)

Ramp(L) == [i \in 1..L |-> i - 1]
IntRamp(L) == [i \in 1..L |-> i - 2]
StrPool == <<"a", "b", "c">>
StrRamp(L) == [i \in 1..L |-> StrPool[((i - 1) % Len(StrPool)) + 1]]

\* lengths that fill whole Mat3 / Mat4 chunks, with and without a remainder
LongLens == {LEN("Mat3"), LEN("Mat4"), 2 * LEN("Mat3") + 1}

\* The flat (or nested) vectors drawn for a column of kind k.
ColumnData(k) ==
    CASE k = "float" -> {RawAttributeData(k, Ramp(L)) : L \in (0..MaxLen) \cup LongLens}
      [] k = "int" -> {RawAttributeData(k, IntRamp(L)) : L \in 0..MaxLen}
      [] k = "string" -> {RawAttributeData(k, StrRamp(L)) : L \in 0..MaxLen}
      [] k = "index" -> {RawAttributeData(k, Ramp(L)) : L \in 0..MaxLen}
      [] k = "prim_vertex" ->
            {RawAttributeData(k, [i \in 1..L |-> Ramp(i - 1)]) : L \in 0..MaxLen}
      [] k = "float_array" -> {RawAttributeData(k, [i \in 1..L |-> Ramp(i)]) : L \in 0..1}
      [] k = "int_array" -> {RawAttributeData(k, [i \in 1..L |-> IntRamp(i)]) : L \in 0..1}
      [] k = "string_array" -> {RawAttributeData(k, [i \in 1..L |-> StrRamp(i)]) : L \in 0..1}

TupleSizes == (0..MaxLen) \cup {LEN(b) : b \in BaseTypes}

Columns(k) == {RawAttribute(n, d) : n \in TupleSizes, d \in ColumnData(k)}

AttrNames == {"P", "name"}

ErrContexts == {ErrContext(i, e) : i \in 0..MaxCount, e \in EntityKind}

-----------------------------------------------------------------------------
(* Decoding one column: load_from_attr applied to drawn arguments *)

InitAttr ==
    /\ pc = "attr"
    /\ ty \in Types
    /\ num_elements \in 0..MaxCount
    /\ attr_name \in AttrNames
    /\ \/ attr = None /\ err_context \in ErrContexts
       \/ /\ \E k \in AttributeType : attr \in {Some(c) : c \in Columns(k)}
          /\ err_context \in {ErrContext(0, "point"), ErrContext(MaxCount, "detail")}
    /\ res = Unset
    /\ calls = Unset
    /\ gty = Unset /\ geo = Unset /\ out = Unset
    /\ raw = Unset /\ input_index = 0 /\ back = Unset

\* The caller applies load_from_attr and collects the iterator.
LoadFromAttr ==
    /\ pc = "attr"
    /\ pc' = "loaded"
    /\ res' = load_from_attr(ty, attr, num_elements, attr_name, err_context)
    /\ calls' = decoder_calls(ty, attr)
    /\ UNCHANGED <<ty, attr, num_elements, attr_name, err_context>>
    /\ UNCHANGED geoVars

NextAttr == LoadFromAttr

SpecAttr == InitAttr /\ [][NextAttr]_vars

-----------------------------------------------------------------------------
(* Row structures of the tests and the example, and further ones *)

\* tests::GeoPoint
GeoPoint == Struct(<<Field("position", "P", Plain("Vec3")),
                     Field("name", "name", Plain("String"))>>)
\* tests::GeoDetail
GeoDetail == Struct(<<Field("some_detail", "some_detail", Plain("String"))>>)
\* examples/main.rs
MyPoint == Struct(<<Field("position", "P", Plain("Vec3"))>>)
MyVertex == Struct(<<Field("ptnum", "ptnum", Plain("usize")),
                     Field("normal", "N", Plain("Vec3"))>>)
MyPrim == Struct(<<Field("vertices", "vertices", Plain("VecUsize"))>>)

\* vertex rows with only the point reference
PtVertex == Struct(<<Field("ptnum", "ptnum", Plain("usize"))>>)
\* vertex rows whose "ptnum" is an i32
IntPtnumVertex == Struct(<<Field("ptnum", "ptnum", Plain("i32"))>>)
\* vertex rows without "ptnum"
UvVertex == Struct(<<Field("uv", "uv", Plain("Vec2"))>>)
\* primitive rows without "vertices"
NamedPrim == Struct(<<Field("name", "name", Plain("String"))>>)
\* primitive rows that declare "points" themselves
PointsPrim == Struct(<<Field("vertices", "vertices", Plain("VecUsize")),
                       Field("points", "points", Plain("String"))>>)
\* primitive rows with a further attribute beside "vertices"
TaggedPrim == Struct(<<Field("vertices", "vertices", Plain("VecUsize")),
                       Field("name", "name", Plain("String"))>>)
\* primitive rows whose "vertices" is an i32
IntVerticesPrim == Struct(<<Field("vertices", "vertices", Plain("i32"))>>)
\* point rows over the remaining adapters
ScalarPoint == Struct(<<Field("visible", "visible", Plain("bool")),
                        Field("id", "id", Plain("i32"))>>)
QuatPoint == Struct(<<Field("orient", "orient", Plain("Quat")),
                      Field("pscale", "pscale", Plain("f32")),
                      Field("uv", "uv", Plain("Vec2")),
                      Field("Cd", "Cd", Plain("Vec4"))>>)
MatPoint == Struct(<<Field("m2", "m2", Plain("Mat2")),
                     Field("m3", "m3", Plain("Mat3")),
                     Field("m4", "m4", Plain("Mat4"))>>)

\* The instantiations Geometry<Pt, Vt, Pr, Dt> the model converts.
GeometryTypes ==
    {GeometryType(UnitKind, V, P, UnitKind) :
        V \in {UnitKind, PtVertex, IntPtnumVertex, UvVertex},
        P \in {UnitKind, MyPrim, NamedPrim, PointsPrim, IntVerticesPrim}}
    \cup {GeometryType(P, UnitKind, UnitKind, D) :
        P \in {GeoPoint, MyPoint, ScalarPoint, QuatPoint, MatPoint},
        D \in {UnitKind, GeoDetail}}
    \cup {GeometryType(MyPoint, MyVertex, MyPrim, UnitKind),
          GeometryType(MyPoint, PtVertex, UnitKind, UnitKind),
          GeometryType(UnitKind, PtVertex, TaggedPrim, GeoDetail)}

-----------------------------------------------------------------------------
(* The Geometry values drawn as inputs of into_raw *)

IndexVals == 0..2

\* The values drawn for a field of a base type (lists apart).
Values(base) ==
    CASE base = "f32" -> {0, 1}
      [] base = "i32" -> {-1, 0}
      [] base = "String" -> {"a", "b"}
      [] base = "usize" -> IndexVals
      [] base = "bool" -> BOOLEAN
      [] base = "Vec2" -> {[x |-> 0, y |-> 1]}
      [] base = "Vec3" -> {[x |-> 0, y |-> 1, z |-> 2], [x |-> 2, y |-> 0, z |-> 0]}
      [] base = "Vec4" -> {[x |-> 0, y |-> 1, z |-> 2, w |-> 3]}
      [] base = "Quat" -> {[x |-> 0, y |-> 0, z |-> 0, w |-> 1], [x |-> 1, y |-> 2, z |-> 3, w |-> 4]}
      [] base = "Mat2" -> {[x_axis |-> [x |-> 1, y |-> 2], y_axis |-> [x |-> 3, y |-> 4]]}
      [] base = "Mat3" -> {[x_axis |-> [x |-> 1, y |-> 2, z |-> 3],
                            y_axis |-> [x |-> 4, y |-> 5, z |-> 6],
                            z_axis |-> [x |-> 7, y |-> 8, z |-> 9]]}
      [] base = "Mat4" -> {[x_axis |-> [x |-> 1, y |-> 2, z |-> 3, w |-> 4],
                            y_axis |-> [x |-> 5, y |-> 6, z |-> 7, w |-> 8],
                            z_axis |-> [x |-> 9, y |-> 10, z |-> 11, w |-> 12],
                            w_axis |-> [x |-> 13, y |-> 14, z |-> 15, w |-> 16]]}

\* The values drawn for a field: a Vec<usize> holds at most w elements.
FieldValues(base, w) ==
    IF base = "VecUsize" THEN UNION {[1..n -> IndexVals] : n \in 0..w}
    ELSE Values(base)

RECURSIVE Sum(_)
Sum(q) == IF q = <<>> THEN 0 ELSE Head(q) + Sum(Tail(q))

\* The size of a row: one, plus the elements of its Vec<usize> fields.
Weight(S, r) ==
    1 + Sum([i \in 1..Len(S.fields) |->
                IF S.fields[i].ty.base = "VecUsize" THEN Len(r[S.fields[i].field]) ELSE 0])

SeqWeight(S, rows) == Sum([k \in 1..Len(rows) |-> Weight(S, rows[k])])

RECURSIVE RowsUpTo(_, _, _)
\* the assignments of fields 1..i, each Vec<usize> of at most w elements
RowsUpTo(S, i, w) ==
    IF i = 0 THEN {<<>>}
    ELSE {r @@ (S.fields[i].field :> v) :
             r \in RowsUpTo(S, i - 1, w), v \in FieldValues(S.fields[i].ty.base, w)}

\* The rows of kind S of size at most w.
Rows(S, w) ==
    IF w < 1 THEN {}
    ELSE IF S.unit THEN {Unit}
    ELSE {r \in RowsUpTo(S, Len(S.fields), w - 1) : Weight(S, r) <= w}

RECURSIVE RowSeqs(_, _)
\* The row collections of kind S of total size at most b.
RowSeqs(S, b) ==
    {<<>>} \cup UNION {{<<r>> \o q : q \in RowSeqs(S, b - Weight(S, r))} : r \in Rows(S, b)}

\* The Geometry<Pt, Vt, Pr, Dt> values of total size at most b (the detail
\* row, of which there is always one, is not counted).
Geometries(G, b) ==
    UNION {UNION {{Geometry(p, v, r, d) :
                      r \in RowSeqs(G.Pr, b - SeqWeight(G.Pt, p) - SeqWeight(G.Vt, v)),
                      d \in Rows(G.Dt, 1)} :
                  v \in RowSeqs(G.Vt, b - SeqWeight(G.Pt, p))} :
           p \in RowSeqs(G.Pt, b)}

-----------------------------------------------------------------------------
(* Encoding a Geometry and decoding the result (tests::generating) *)

Init ==
    /\ pc = "built"
    /\ \E G \in GeometryTypes : gty = G /\ geo \in Geometries(G, MaxSize)
    /\ out = Unset /\ raw = Unset /\ input_index = 0 /\ back = Unset
    /\ ty = Unset /\ attr = Unset /\ num_elements = 0 /\ attr_name = Unset
    /\ err_context = Unset /\ res = Unset /\ calls = Unset

\* generate: G::into_raw(geometry)
IntoRaw ==
    /\ pc = "built"
    /\ pc' = "encoded"
    /\ out' = into_raw(gty, geo)
    /\ UNCHANGED <<gty, geo, raw, input_index, back>>
    /\ UNCHANGED attrVars

\* load: the serialized output read back and G::from_raw(.., 0) applied
Load ==
    /\ pc = "encoded"
    /\ out.ok
    /\ pc' = "decoded"
    /\ raw' = out.val
    /\ back' = from_raw(gty, out.val, 0)
    /\ UNCHANGED <<gty, geo, out, input_index>>
    /\ UNCHANGED attrVars

Next == IntoRaw \/ Load

Spec == Init /\ [][Next]_vars

-----------------------------------------------------------------------------
(* Decoding a RawGeometry read from the host (tests::parsing) *)

\* examples/main.rs
MyDetail == Struct(<<Field("my_data", "my_data", Plain("String"))>>)
\* point rows with an optional field (examples/main.rs, `parent`)
OptPoint == Struct(<<Field("position", "P", Plain("Vec3")),
                     Field("parent", "parent", Type("i32", 1))>>)

\* The instantiations the model decodes host geometry into.
DecodeTypes ==
    {GeometryType(UnitKind, UnitKind, UnitKind, UnitKind),
     GeometryType(GeoPoint, UnitKind, UnitKind, UnitKind),
     GeometryType(GeoPoint, UnitKind, UnitKind, GeoDetail),
     GeometryType(OptPoint, UnitKind, UnitKind, UnitKind),
     GeometryType(MyPoint, MyVertex, MyPrim, MyDetail)}

\* a flat vector of L scalars of a scalar type
DataOf(scalar, L) ==
    CASE scalar = "f32" -> Ramp(L)
      [] scalar = "i32" -> IntRamp(L)
      [] scalar = "String" -> StrRamp(L)
      [] scalar = "usize" -> Ramp(L)
      [] scalar = "VecUsize" -> [i \in 1..L |-> Ramp(i - 1)]

\* another scalar type than the one given
OtherScalar(scalar) == IF scalar = "String" THEN "i32" ELSE "String"

\* a column of n-tuples of a scalar type holding L scalars
ColumnOf(scalar, n, L) ==
    RawAttribute(n, RawAttributeData(VariantOf(scalar), DataOf(scalar, L)))

\* The columns drawn for a field of type T: 0..MaxCount well-formed tuples,
\* one column of another kind (with one tuple, and with none), one of another
\* tuple_size.
FieldColumns(T) ==
    {ColumnOf(ScalarOf(T.base), LEN(T.base), LEN(T.base) * r) : r \in 0..MaxCount}
    \cup {ColumnOf(OtherScalar(ScalarOf(T.base)), LEN(T.base), LEN(T.base)),
          ColumnOf(OtherScalar(ScalarOf(T.base)), LEN(T.base), 0),
          ColumnOf(ScalarOf(T.base), LEN(T.base) + 1, LEN(T.base) + 1)}

RECURSIVE FieldCollections(_, _)
\* the collections over the attributes of fields 1..i, each absent or drawn
FieldCollections(S, i) ==
    IF i = 0 THEN {EmptyMap}
    ELSE LET before == FieldCollections(S, i - 1)
         IN before \cup {m @@ (S.fields[i].attr :> c) :
                            m \in before, c \in FieldColumns(S.fields[i].ty)}

\* The entity collections drawn for a row kind; for `()`, no attributes or
\* one the row kind does not declare.
RawCollections(S) ==
    IF S.unit THEN {EmptyMap, ("extra" :> ColumnOf("f32", 1, 1))}
    ELSE FieldCollections(S, Len(S.fields))

RawGeometries(G) ==
    {Geometry(p, v, r, d) : p \in RawCollections(G.Pt), v \in RawCollections(G.Vt),
                            r \in RawCollections(G.Pr), d \in RawCollections(G.Dt)}

InitDecode ==
    /\ pc = "raw"
    /\ \E G \in DecodeTypes : gty = G /\ raw \in RawGeometries(G)
    /\ input_index \in 0..MaxCount
    /\ geo = Unset /\ out = Unset /\ back = Unset
    /\ ty = Unset /\ attr = Unset /\ num_elements = 0 /\ attr_name = Unset
    /\ err_context = Unset /\ res = Unset /\ calls = Unset

\* load_from_raw: G::from_raw(raw_geometry, input_index)
FromRaw ==
    /\ pc = "raw"
    /\ pc' = "decoded"
    /\ back' = from_raw(gty, raw, input_index)
    /\ UNCHANGED <<gty, geo, out, raw, input_index>>
    /\ UNCHANGED attrVars

NextDecode == FromRaw

SpecDecode == InitDecode /\ [][NextDecode]_vars

-----------------------------------------------------------------------------
(* Claims about decoding one column *)

Loaded == pc = "loaded"

Present == attr # None

\* The arity the target type expects and the one the column declares.
ExpectedArity == LEN(ty.base)
ActualArity == attr[2].tuple_size

\* The kind the target type expects and the one the column holds.
ExpectedKind == VariantOf(ScalarOf(ty.base))
ActualKind == kind(attr[2].data)

\* C7: decoding a present column whose tuple_size differs from the arity the
\* target type expects fails with InvalidAttributeLength{expected, actual},
\* for every target type (Option<T> included), whatever the column's kind
\* and data length; no rows are produced.
C7_ArityCheck ==
    (Loaded /\ Present /\ ActualArity # ExpectedArity)
        => /\ ~res.ok
           /\ res.err = InvalidAttributeLength(ExpectedArity, ActualArity)

\* C7 witness: an Option<Vec3> target and a float column of four elements
\* declared with tuple_size 2 (the kind matches, the arity does not).
C7_Witness ==
    /\ Loaded /\ Present
    /\ ty = Type("Vec3", 1)
    /\ ActualKind = "float" /\ ActualArity = 2 /\ Len(vector(attr[2].data)) = 4
    /\ ~res.ok /\ res.err = InvalidAttributeLength(3, 2)

\* C8 as stated: a present column of another kind than the target expects
\* fails with InvalidAttributeType{expected, actual} whatever its tuple_size.
C8_KindCheck_AnyArity ==
    (Loaded /\ Present /\ ActualKind # ExpectedKind)
        => /\ ~res.ok
           /\ res.err = InvalidAttributeType(ExpectedKind, ActualKind)

\* C8 amended: a present column of another kind than the target expects,
\* whose tuple_size equals the expected arity, fails with
\* InvalidAttributeType{expected, actual}, whatever its data length.
C8_KindCheck ==
    (Loaded /\ Present /\ ActualKind # ExpectedKind /\ ActualArity = ExpectedArity)
        => /\ ~res.ok
           /\ res.err = InvalidAttributeType(ExpectedKind, ActualKind)

\* C8 witness: an int column of three elements, tuple_size 1, decoded into f32.
C8_Witness ==
    /\ Loaded /\ Present
    /\ ty = Plain("f32")
    /\ ActualKind = "int" /\ ActualArity = 1 /\ Len(vector(attr[2].data)) = 3
    /\ ~res.ok /\ res.err = InvalidAttributeType("float", "int")

\* C10: decoding an Option<T> field whose attribute is absent succeeds with
\* exactly num_elements values, all None; no decoder of T runs (so none of
\* its arity / kind checks and no MissingAttr).
C10_OptionalFallback ==
    (Loaded /\ ~Present /\ ty.opt > 0)
        => /\ res.ok
           /\ Len(res.val) = num_elements
           /\ \A k \in 1..Len(res.val) : res.val[k] = None
           /\ calls = <<>>

\* C10 witness: Option<Vec3>, attribute absent, two sibling rows.
C10_Witness ==
    /\ Loaded /\ ~Present
    /\ ty = Type("Vec3", 1) /\ num_elements = 2
    /\ res = Ok(<<None, None>>)

-----------------------------------------------------------------------------
(* Claims about encoding a Geometry *)

\* into_raw has returned
Encoded == pc \in {"encoded", "decoded"}

\* the collections Vt::into_attr and Pr::into_attr produce from the rows
EncodedVertices == into_attr(gty.Vt, geo.vertices)
EncodedPrims == into_attr(gty.Pr, geo.prims)

HasVertices == "vertices" \in DOMAIN EncodedPrims
HasPtnum == "ptnum" \in DOMAIN EncodedVertices

\* "vertices" is a list-of-vertex-indices column, "ptnum" an Index column
VerticesValid == HasVertices /\ kind(EncodedPrims["vertices"].data) = "prim_vertex"
PtnumValid == HasPtnum /\ kind(EncodedVertices["ptnum"].data) = "index"

\* the input vertex lists and the vertex -> point table
VertexLists == vector(EncodedPrims["vertices"].data)
Ptnum == vector(EncodedVertices["ptnum"].data)

\* every vertex index of every primitive, in primitive then element order
VertexRefs == flatten(VertexLists)
Dangling == {i \in 1..Len(VertexRefs) : VertexRefs[i] >= Len(Ptnum)}

\* no collection of the Geometry holds rows of the unit kind
NoUnitRows ==
    /\ gty.Pt.unit => geo.points = <<>>
    /\ gty.Vt.unit => geo.vertices = <<>>
    /\ gty.Pr.unit => geo.prims = <<>>

\* C1 as stated: whenever into_raw(g) succeeds, from_raw of the result with
\* the same row structures succeeds and yields a Geometry equal to g.
C1_RoundTrip_Any ==
    pc = "decoded" => (back.ok /\ back.val = geo)

\* C1 amended: for a Geometry whose primitive row kind is `()` and which
\* holds no rows of the unit kind, from_raw of into_raw's result succeeds
\* and yields a Geometry equal to g.
C1_RoundTrip ==
    (pc = "decoded" /\ gty.Pr.unit /\ NoUnitRows) => (back.ok /\ back.val = geo)

\* C1 witness: two different GeoPoint rows (tests::generating with one more
\* row) encoded and decoded back.
C1_Witness ==
    /\ pc = "decoded"
    /\ gty = GeometryType(GeoPoint, UnitKind, UnitKind, UnitKind)
    /\ Len(geo.points) = 2 /\ geo.points[1] # geo.points[2]
    /\ back.ok /\ back.val = geo

\* C2: when into_raw succeeds with a non-empty encoded primitive collection,
\* the "points" column holds as many lists as the input "vertices" column,
\* each of the same length, and element j of list i is ptnum[v] for the
\* input vertex index v at (i, j).
C2_ConnectivityRemap ==
    (Encoded /\ out.ok /\ ~is_empty(EncodedPrims))
        => /\ HasVertices /\ HasPtnum
           /\ "points" \in DOMAIN out.val.prims
           /\ kind(out.val.prims["points"].data) = "prim_vertex"
           /\ LET pts == vector(out.val.prims["points"].data)
              IN /\ Len(pts) = Len(VertexLists)
                 /\ \A i \in 1..Len(pts) :
                       /\ Len(pts[i]) = Len(VertexLists[i])
                       /\ \A j \in 1..Len(pts[i]) : pts[i][j] = Ptnum[VertexLists[i][j] + 1]

\* C2 witness: ptnum [2, 0] and one primitive with vertex list [1] give the
\* point list [0].
C2_Witness ==
    /\ Encoded /\ out.ok /\ VerticesValid /\ PtnumValid
    /\ Ptnum = <<2, 0>> /\ VertexLists = << <<1>> >>
    /\ vector(out.val.prims["points"].data) = << <<0>> >>

\* C3: with "vertices" and an Index "ptnum" present, if some primitive's
\* vertex list holds a value >= the length of the ptnum column, into_raw
\* fails with InvalidOutPrimVertex(v), v the original value of the first
\* such element in primitive order then element order.
C3_DanglingVertex ==
    (Encoded /\ VerticesValid /\ PtnumValid /\ Dangling # {})
        => /\ ~out.ok
           /\ out.err = InvalidOutPrimVertex(VertexRefs[Min(Dangling)])

\* C3 witness: one vertex row, one primitive [0, 2]: the first element is in
\* bounds, the second is reported.
C3_Witness ==
    /\ Encoded /\ VerticesValid /\ PtnumValid
    /\ Len(Ptnum) = 1 /\ VertexLists = << <<0, 2>> >>
    /\ ~out.ok /\ out.err = InvalidOutPrimVertex(2)

\* C4: a primitive row structure that declares "points" beside a valid
\* "vertices", with a valid Index "ptnum" and every vertex index in bounds,
\* fails with AttrNameCollision("points") (no output, nothing overwritten).
C4_NameCollision ==
    (Encoded /\ "points" \in DOMAIN EncodedPrims
        /\ VerticesValid /\ PtnumValid /\ Dangling = {})
        => /\ ~out.ok
           /\ out.err = AttrNameCollision("points")

\* C4 witness: a PointsPrim row whose vertex list [0, 0] refers to the one
\* vertex row.
C4_Witness ==
    /\ Encoded /\ gty.Pr = PointsPrim /\ PtnumValid
    /\ Len(Ptnum) = 1 /\ VertexLists = << <<0, 0>> >>
    /\ ~out.ok /\ out.err = AttrNameCollision("points")

\* C5 as stated: into_raw of any geometry whose encoded vertex collection
\* has no "ptnum" fails with MissingOutVertexPtnums, and of any geometry
\* whose "ptnum" is not of Index kind fails with InvalidOutVertexPtnum.
C5_PtnumRequired_Any ==
    Encoded =>
        /\ ~HasPtnum => (~out.ok /\ out.err = MissingOutVertexPtnums)
        /\ (HasPtnum /\ ~PtnumValid) => (~out.ok /\ out.err = InvalidOutVertexPtnum)

\* C5 amended: when the encoded primitive collection holds "vertices",
\* into_raw fails with MissingOutVertexPtnums if the encoded vertex
\* collection has no "ptnum" and with InvalidOutVertexPtnum if its "ptnum"
\* is not of Index kind; when the primitive collection is empty neither
\* error is raised.
C5_PtnumRequired ==
    Encoded =>
        /\ (HasVertices /\ ~HasPtnum) => (~out.ok /\ out.err = MissingOutVertexPtnums)
        /\ (HasVertices /\ HasPtnum /\ ~PtnumValid)
              => (~out.ok /\ out.err = InvalidOutVertexPtnum)
        /\ is_empty(EncodedPrims) => out.ok

\* C5 witness: a vertex row whose "ptnum" is an i32, and a primitive row.
C5_Witness ==
    /\ Encoded /\ HasVertices /\ HasPtnum /\ ~PtnumValid
    /\ Len(geo.vertices) = 1 /\ Len(geo.prims) = 1
    /\ ~out.ok /\ out.err = InvalidOutVertexPtnum

\* C6: a non-empty encoded primitive collection without "vertices" fails
\* with MissingOutPrimVertices, whatever the vertex collection and the
\* number of primitive rows; with an empty primitive collection into_raw
\* raises no error.
C6_VerticesRequired ==
    Encoded =>
        /\ (~is_empty(EncodedPrims) /\ ~HasVertices)
              => (~out.ok /\ out.err = MissingOutPrimVertices)
        /\ is_empty(EncodedPrims) => out.ok

\* C6 witness: NamedPrim with zero rows, over vertex rows without "ptnum".
C6_Witness ==
    /\ Encoded /\ gty.Pr = NamedPrim /\ geo.prims = <<>>
    /\ ~HasPtnum /\ Len(geo.vertices) = 1
    /\ ~out.ok /\ out.err = MissingOutPrimVertices

-----------------------------------------------------------------------------
(* Claims about decoding a RawGeometry *)

\* from_raw has returned
Decoded == pc = "decoded"

\* what the detail transcoder yields for the detail collection
DetailRows == from_attr(gty.Dt, raw.detail, ErrContext(input_index, "detail"))

\* C9: from_raw uses the row the detail transcoder yields when it yields
\* exactly one; when it yields none it uses Dt::empty() if that is defined
\* (the unit kind, which yields no row for any detail collection) and fails
\* with NoDetail otherwise, returning no Geometry.
C9_DetailCardinality ==
    Decoded =>
        /\ (DetailRows.ok /\ Len(DetailRows.val) = 1)
              => /\ back.ok => back.val.detail = DetailRows.val[1]
                 /\ ~back.ok => back.err # NoDetail
        /\ (DetailRows.ok /\ Len(DetailRows.val) = 0 /\ empty(gty.Dt) # None)
              => /\ back.ok => back.val.detail = empty(gty.Dt)[2]
                 /\ ~back.ok => back.err # NoDetail
        /\ (DetailRows.ok /\ Len(DetailRows.val) = 0 /\ empty(gty.Dt) = None)
              => (~back.ok /\ back.err = NoDetail)
        /\ gty.Dt.unit => (DetailRows = Ok(<<>>) /\ empty(gty.Dt) = Some(Unit))

\* C9 witness: a GeoDetail collection whose "some_detail" column holds no
\* string, beside a point collection that does not decode: NoDetail.
C9_Witness ==
    /\ Decoded /\ gty.Dt = GeoDetail
    /\ DOMAIN raw.detail = {"some_detail"}
    /\ raw.detail["some_detail"] = ColumnOf("String", 1, 0)
    /\ DOMAIN raw.points = {"name"}
    /\ ~back.ok /\ back.err = NoDetail

-----------------------------------------------------------------------------
(* Claims about the entity collections of a RawGeometry *)

\* the order in which from_raw decodes the four collections
EntityOrder == <<"detail", "point", "vertex", "prim">>

\* the row structure and the raw collection of an entity kind
StructOf(e) ==
    CASE e = "point" -> gty.Pt
      [] e = "vertex" -> gty.Vt
      [] e = "prim" -> gty.Pr
      [] e = "detail" -> gty.Dt

CollectionOf(e) ==
    CASE e = "point" -> raw.points
      [] e = "vertex" -> raw.vertices
      [] e = "prim" -> raw.prims
      [] e = "detail" -> raw.detail

\* what the transcoder of an entity kind yields for its collection
EntityRows(e) == from_attr(StructOf(e), CollectionOf(e), ErrContext(input_index, e))

\* the load of field i of an entity kind, as the derived from_attr makes it
FieldLoad(e, i) ==
    LET f == StructOf(e).fields[i]
    IN load_from_attr(f.ty, get(CollectionOf(e), f.attr), row_count(CollectionOf(e)),
                      f.attr, ErrContext(input_index, e))

\* the non-optional fields of an entity kind whose attribute is absent
MissingFields(e) ==
    {i \in 1..Len(StructOf(e).fields) :
        /\ StructOf(e).fields[i].ty.opt = 0
        /\ StructOf(e).fields[i].attr \notin DOMAIN CollectionOf(e)}

\* from_raw gets past an entity kind: its decode succeeds and, for the
\* detail, a row or a default exists
Passes(e) ==
    /\ EntityRows(e).ok
    /\ e = "detail" => (Len(EntityRows(e).val) > 0 \/ empty(gty.Dt) # None)

\* the decode of field i of entity kind e is reached: every collection
\* decoded before e passes and every field declared before i loads
FieldReached(e, i) ==
    /\ \A k \in 1..Len(EntityOrder) :
          (\E m \in (k + 1)..Len(EntityOrder) : EntityOrder[m] = e) => Passes(EntityOrder[k])
    /\ \A j \in 1..(i - 1) : FieldLoad(e, j).ok

-----------------------------------------------------------------------------
(* Claims about the output of into_raw *)

\* the number of point rows encoded
PointRows == Len(geo.points)

\* the values of the output vertex collection's "ptnum" column
OutPtnum ==
    IF "ptnum" \in DOMAIN out.val.vertices
    THEN vector(out.val.vertices["ptnum"].data) ELSE <<>>

\* the values inside the output primitive collection's "points" lists
OutPointRefs ==
    IF "points" \in DOMAIN out.val.prims
    THEN flatten(vector(out.val.prims["points"].data)) ELSE <<>>

\* C12: whenever into_raw succeeds, every value of the vertex collection's
\* "ptnum" column and every value inside the primitive collection's "points"
\* lists is strictly less than the number of point rows (stated for point
\* rows of a derived structure and a "ptnum" column of Index kind, where
\* both numbers are defined).
C12_IndexValidity ==
    (Encoded /\ out.ok /\ ~gty.Pt.unit /\ PtnumValid)
        => /\ \A i \in 1..Len(OutPtnum) : OutPtnum[i] < PointRows
           /\ \A i \in 1..Len(OutPointRefs) : OutPointRefs[i] < PointRows

-----------------------------------------------------------------------------
(* Claims about decoding an empty snapshot *)

\* a collection that holds no element: every column's vector is empty
NoElements(c) == \A a \in DOMAIN c : Len(vector(c[a].data)) = 0

\* zero points, zero vertices, zero primitives and no detail attributes
EmptySnapshot ==
    /\ NoElements(raw.points) /\ NoElements(raw.vertices) /\ NoElements(raw.prims)
    /\ is_empty(raw.detail)

\* every attribute the row structure of an entity kind declares is present
\* as a column of the tuple_size and kind its field type expects
Declared(e) ==
    \A i \in 1..Len(StructOf(e).fields) :
        LET f == StructOf(e).fields[i]
        IN /\ f.attr \in DOMAIN CollectionOf(e)
           /\ CollectionOf(e)[f.attr].tuple_size = LEN(f.ty.base)
           /\ kind(CollectionOf(e)[f.attr].data) = VariantOf(ScalarOf(f.ty.base))

\* the detail structure defines a default: `()`, or any other whose empty()
\* is Some
HasDefault == gty.Dt.unit \/ empty(gty.Dt) # None

\* the Geometry with no rows and the default detail
EmptyGeometry == Geometry(<<>>, <<>>, <<>>, empty(gty.Dt)[2])

\* C13 as stated: decoding a snapshot with zero points, zero vertices, zero
\* primitives and no detail attributes succeeds whenever the detail
\* structure defines a default, with empty collections and the default detail.
C13_EmptyGeometry_Any ==
    (Decoded /\ EmptySnapshot /\ HasDefault)
        => (back.ok /\ back.val = EmptyGeometry)

\* C13 amended: the same, for a snapshot in which every attribute declared
\* by the point, vertex and primitive structures is present as a column of
\* the expected tuple_size and kind (holding no element).
C13_EmptyGeometry ==
    (Decoded /\ EmptySnapshot /\ HasDefault
        /\ Declared("point") /\ Declared("vertex") /\ Declared("prim"))
        => (back.ok /\ back.val = EmptyGeometry)

\* C13 witness: GeoPoint points whose "P" and "name" columns are empty, and
\* `()` for the rest, the detail included.
C13_Witness ==
    /\ Decoded /\ EmptySnapshot
    /\ gty = GeometryType(GeoPoint, UnitKind, UnitKind, UnitKind)
    /\ DOMAIN raw.points = {"P", "name"} /\ Declared("point")
    /\ back = Ok(Geometry(<<>>, <<>>, <<>>, Unit))

-----------------------------------------------------------------------------
(* Claims about chunking a column *)

\* the flat vector of the column and the tuple size N the target expects
Flat == vector(attr[2].data)

RECURSIVE Inner(_, _)
\* the value below n layers of Some(..)
Inner(x, n) == IF n = 0 THEN x ELSE Inner(x[2], n - 1)

\* the k-th value yielded, below the Some(..) layers of an Option<..> target
Yielded(k) == Inner(res.val[k], ty.opt)

\* elements (k-1)*N+1 .. k*N of the flat vector, as the adapter of the
\* target type reads them back (a bool is read as `!= 0`)
ChunkIs(k, x) ==
    LET N == ExpectedArity
    IN CASE ty.base = "bool" -> x = (Flat[k] # 0)
         [] ArrayLen(ty.base) = 0 -> x = Flat[k]
         [] OTHER -> into_chunk(ty.base, x) = SubSeq(Flat, (k - 1) * N + 1, k * N)

\* C14: decoding a column of matching kind and tuple_size N whose flat vector
\* has length L yields, in order, exactly floor(L / N) tuples, the k-th being
\* elements k*N .. k*N+N-1 (counted from 0) of the flat vector; the trailing
\* L mod N elements are dropped without error, and for N = 1 the elements
\* are yielded one by one unchanged.
C14_Chunking ==
    (Loaded /\ Present /\ ActualArity = ExpectedArity /\ ActualKind = ExpectedKind)
        => /\ res.ok
           /\ Len(res.val) = Len(Flat) \div ExpectedArity
           /\ \A k \in 1..Len(res.val) : ChunkIs(k, Yielded(k))

\* C14 witness: a float column of 19 elements with tuple_size 9 decoded into
\* Mat3: two matrices, the last element dropped.
C14_Witness ==
    /\ Loaded /\ Present /\ ty = Plain("Mat3")
    /\ ActualKind = "float" /\ ActualArity = 9 /\ Len(Flat) = 19
    /\ res.ok /\ Len(res.val) = 2
    /\ res.val[2].x_axis = [x |-> 9, y |-> 10, z |-> 11]
    /\ res.val[2].z_axis = [x |-> 15, y |-> 16, z |-> 17]

-----------------------------------------------------------------------------
(* Claims about the rows of an entity collection *)

RowKinds == {"point", "vertex", "prim"}

\* the rows from_raw returned for an entity kind
RowsOf(e) ==
    CASE e = "point" -> back.val.points
      [] e = "vertex" -> back.val.vertices
      [] e = "prim" -> back.val.prims
      [] e = "detail" -> <<back.val.detail>>

\* the column of field i of an entity kind, and the number of tuples of the
\* shortest declared column
ColumnAt(e, i) == CollectionOf(e)[StructOf(e).fields[i].attr]
ShortestColumn(e) ==
    Min({tuples(ColumnAt(e, i)) : i \in 1..Len(StructOf(e).fields)})

\* the detail collection gives a detail: `()`, or valid columns of at least
\* one tuple each
DetailUsable ==
    gty.Dt.unit \/ (Declared("detail") /\ ShortestColumn("detail") >= 1)

\* value x of field i is the k-th tuple of the field's column
TupleIs(e, i, k, x) ==
    LET f == StructOf(e).fields[i]
        N == LEN(f.ty.base)
        flat == vector(ColumnAt(e, i).data)
        y == Inner(x, f.ty.opt)
    IN IF ArrayLen(f.ty.base) = 0 THEN y = flat[k]
       ELSE into_chunk(f.ty.base, y) = SubSeq(flat, (k - 1) * N + 1, k * N)

\* the declared columns of an entity kind hold different numbers of tuples
Disagree(e) ==
    \E i, j \in 1..Len(StructOf(e).fields) : tuples(ColumnAt(e, i)) # tuples(ColumnAt(e, j))

\* C15: when the declared columns of every collection are valid (whatever
\* the number of tuples each holds) from_raw raises no error, and a
\* collection yields exactly as many rows as its shortest column, row k
\* being built from the k-th value of every field.
C15_RowCountDisagreement ==
    Decoded =>
        /\ (DetailUsable /\ \A e \in RowKinds : Declared(e)) => back.ok
        /\ back.ok =>
              \A e \in RowKinds :
                  (~StructOf(e).unit /\ Declared(e))
                      => /\ Len(RowsOf(e)) = ShortestColumn(e)
                         /\ \A k \in 1..Len(RowsOf(e)) :
                               \A i \in 1..Len(StructOf(e).fields) :
                                   TupleIs(e, i, k, RowsOf(e)[k][StructOf(e).fields[i].field])

\* C15 witness: GeoPoint points with two "P" tuples and one "name": one row.
C15_Witness ==
    /\ Decoded /\ gty.Pt = GeoPoint /\ Declared("point") /\ Disagree("point")
    /\ tuples(raw.points["P"]) = 2 /\ tuples(raw.points["name"]) = 1
    /\ back.ok
    /\ back.val.points = <<[position |-> [x |-> 0, y |-> 1, z |-> 2], name |-> "a"]>>

-----------------------------------------------------------------------------
(* Claims about what into_raw leaves alone *)

\* the collections Pt::into_attr and Dt::into_attr produce from the rows
EncodedPoints == into_attr(gty.Pt, geo.points)
EncodedDetail == into_attr(gty.Dt, <<geo.detail>>)

\* the primitive columns other than the connectivity column
OtherColumns(prims) == DOMAIN prims \ {"vertices", "points"}

\* C16: when into_raw succeeds with a non-empty primitive collection, the
\* output primitive collection holds "points" and no "vertices", every other
\* primitive column is as encoded from the rows, "points" keeps the
\* tuple_size of "vertices", the output vertex collection ("ptnum" included)
\* and the point and detail collections are what encoding their rows alone
\* produces, and every detail column holds exactly one tuple.
C16_RemapFrame ==
    (Encoded /\ out.ok /\ ~is_empty(EncodedPrims))
        => /\ "points" \in DOMAIN out.val.prims
           /\ "vertices" \notin DOMAIN out.val.prims
           /\ OtherColumns(out.val.prims) = OtherColumns(EncodedPrims)
           /\ \A a \in OtherColumns(EncodedPrims) : out.val.prims[a] = EncodedPrims[a]
           /\ out.val.prims["points"].tuple_size = EncodedPrims["vertices"].tuple_size
           /\ out.val.vertices = EncodedVertices
           /\ "ptnum" \in DOMAIN out.val.vertices
           /\ out.val.points = EncodedPoints
           /\ out.val.detail = EncodedDetail
           /\ \A a \in DOMAIN out.val.detail : tuples(out.val.detail[a]) = 1

\* C16 witness: one TaggedPrim row named "b" over two vertex rows, with a
\* GeoDetail: the "name" column and the detail come out as encoded.
C16_Witness ==
    /\ Encoded /\ out.ok /\ gty.Pr = TaggedPrim /\ gty.Dt = GeoDetail
    /\ Len(geo.vertices) = 2 /\ Len(geo.prims) = 1 /\ geo.prims[1].name = "b"
    /\ DOMAIN out.val.prims = {"points", "name"}
    /\ vector(out.val.prims["name"].data) = <<"b">>
    /\ vector(out.val.detail["some_detail"].data) = <<geo.detail.some_detail>>

====
